---- MODULE Spec2Model ----
(***************************************************************************)
(* Playback state machine and frame-timing scheduler of textual-video's    *)
(* VideoPlayer widget (src/textual_video/player.py).                       *)
(*                                                                         *)
(* Times are integers in units of 10 microseconds (0.0373 s = 3730), and   *)
(* the inputs are chosen so that delay_between_frames / speed is exact.    *)
(* A frame is identified by its 0-based position in the decoded video;     *)
(* Python's None is -1 for the held frame and <<>> for an optional         *)
(* argument, <<v>> being the supplied value v.  Sequences are 1-based, so  *)
(* Python's frames[idx] is frames[idx + 1].                                *)
(***************************************************************************)
EXTENDS Integers, Sequences, FiniteSets, TLC

VARIABLES
    args,                 \* the arguments given to VideoPlayer.__init__
    video,                \* what the decoder reports for the file at path
    status,               \* "new", "constructed", "composed", "mounted", "crashed"
    error,                \* the exception that ended the player, or NoError
    current_frame_index,  \* self.current_frame_index
    frames,               \* self.frames
    metadata,             \* self.metadata
    paused,               \* self.paused
    _fake_paused,         \* self._fake_paused
    render_delay,         \* self.render_delay
    frame,                \* self.frame, the held current frame
    timer,                \* self.timer: "unset", "running" or "paused"
    timer_interval,       \* the interval self.timer was armed with
    _temp_pause,          \* PauseButton._temp_pause of the composed button
    on_update_calls,      \* the on_update calls made by the last handler run
    width,                \* self.size.width, the width the track is drawn in
    track,                \* the last progress track compose() computed, if any
    hist,                 \* the last two operations and the state before each
    end_of_stream         \* history: the end-of-stream tick fired and no play since

vars == <<args, video, status, error, current_frame_index, frames, metadata,
          paused, _fake_paused, render_delay, frame, timer, timer_interval,
          _temp_pause, on_update_calls, width, track, hist, end_of_stream>>

-----------------------------------------------------------------------------
(* Bounds *)

MaxFrames == 3

MaxWidth == 4

-----------------------------------------------------------------------------
(* Inputs *)

ImageType == {"SIXEL", "TGP", "HALFCELL", "UNICODE"}

RENDER_DELAY ==
    [t \in ImageType |->
        CASE t = "SIXEL"    -> 3730
          [] t = "HALFCELL" -> 1065
          [] t = "UNICODE"  -> 116
          [] t = "TGP"      -> 288]

get_render_delay(type) == RENDER_DELAY[type]

None == <<>>

RenderDelayArgs == {None, <<0 - 1>>, <<0>>, <<2000>>, <<15000>>}

SpeedArgs == {1, 2}

FactorArgs == {0 - 1, 0, 1, 2}

FrameDelays == {2000, 10000}

NoError == "None"

-----------------------------------------------------------------------------
(* The player object as a record, so that methods compose.  A handler      *)
(* starts with no on_update call made yet and no recompose requested.       *)

Self ==
    [current_frame_index |-> current_frame_index,
     frames              |-> frames,
     metadata            |-> metadata,
     paused              |-> paused,
     _fake_paused        |-> _fake_paused,
     render_delay        |-> render_delay,
     frame               |-> frame,
     timer               |-> timer,
     timer_interval      |-> timer_interval,
     _temp_pause         |-> _temp_pause,
     on_update_calls     |-> <<>>,
     recompose           |-> FALSE,
     track               |-> track,
     error               |-> error]

Raise(s, e) == IF s.error = NoError THEN [s EXCEPT !.error = e] ELSE s

Range(n) == [i \in 1..n |-> i - 1]

CeilDiv(n, d) == (n + d - 1) \div d

-----------------------------------------------------------------------------
(* Collaborators whose code is outside the player: the decoder and the      *)
(* metadata object                                                          *)

get_video_metadata(v) ==
    [frame_count |-> v.frame_count,
     delay_between_frames |-> v.delay_between_frames]

video_to_widgets(v) == Range(v.frame_count)

\* keeps the frames at stride factor and re-spaces the metadata to match
decrease_fps(m, factor, fs) ==
    LET kept == [i \in 1..CeilDiv(Len(fs), factor) |-> fs[(i - 1) * factor + 1]]
    IN  [metadata |-> [frame_count |-> Len(kept),
                       delay_between_frames |-> m.delay_between_frames * factor],
         frames   |-> kept]

-----------------------------------------------------------------------------
(* Timer facility: pause() and resume() of the handle set_interval returns *)

timer_pause(s) ==
    IF s.timer = "unset" THEN Raise(s, "AttributeError")
    ELSE [s EXCEPT !.timer = "paused"]

timer_resume(s) ==
    IF s.timer = "unset" THEN Raise(s, "AttributeError")
    ELSE [s EXCEPT !.timer = "running"]

\* delay_between_frames / speed - render_delay
effective_interval(m, speed, rd) == (m.delay_between_frames \div speed) - rd

-----------------------------------------------------------------------------
(* VideoPlayer methods.  A method that raised leaves the rest of the        *)
(* handler unexecuted: every statement is skipped once s.error is set.      *)

\* self.refresh(recompose=True): compose() runs again once the handler is
\* done; it yields a new PauseButton, whose _temp_pause is False
_refresh_image(s) ==
    IF s.error # NoError THEN s
    ELSE [s EXCEPT !._temp_pause = FALSE, !.recompose = TRUE]

_update_controls(s) ==
    IF s.error # NoError THEN s
    ELSE IF ~args.show_controls THEN Raise(s, "AssertionError: Controls are hidden")
    ELSE s

\* self.on_frame_update(index): the observer sees the frame held at the call
on_frame_update(s, index) ==
    IF s.error # NoError THEN s
    ELSE [s EXCEPT !.on_update_calls =
                       Append(@, [index |-> index, frame |-> s.frame])]

\* _replace_frame_widget without the observer call
_replace_frame_widget_silent(s, idx) ==
    LET s1 == _refresh_image(s)
        s2 == IF s1.error # NoError THEN s1
              ELSE IF idx < Len(s1.frames)
                   THEN [s1 EXCEPT !.frame = s1.frames[idx + 1]]
                   ELSE Raise(s1, "IndexError")
    IN  _update_controls(s2)

_replace_frame_widget(s, idx) ==
    LET s0 == _refresh_image(s)
        s1 == on_frame_update(s0, s0.current_frame_index)
        s2 == IF s1.error # NoError THEN s1
              ELSE IF idx < Len(s1.frames)
                   THEN [s1 EXCEPT !.frame = s1.frames[idx + 1]]
                   ELSE Raise(s1, "IndexError")
    IN  _update_controls(s2)

\* pause setting the flag without stopping the timer
pause_keeps_timer(s) ==
    _update_controls(_refresh_image([s EXCEPT !.paused = TRUE]))

pause(s) ==
    LET s1 == timer_pause(s)
        s2 == IF s1.error # NoError THEN s1 ELSE [s1 EXCEPT !.paused = TRUE]
    IN  _update_controls(_refresh_image(s2))


\* play without the restart from the beginning
play_no_restart(s) ==
    LET s1 == timer_resume(s)
        s2 == IF s1.error # NoError THEN s1 ELSE [s1 EXCEPT !.paused = FALSE]
    IN  _update_controls(_refresh_image(s2))

play(s) ==
    LET s0 == IF s.current_frame_index = s.metadata.frame_count - 1
              THEN [s EXCEPT !.current_frame_index = 0]
              ELSE s
        s1 == timer_resume(s0)
        s2 == IF s1.error # NoError THEN s1 ELSE [s1 EXCEPT !.paused = FALSE]
    IN  _update_controls(_refresh_image(s2))


\* _update_frame_index with the bound test off by one (>= for >)
_update_frame_index_off_by_one(s) ==
    IF s.metadata.frame_count >= s.current_frame_index + 1
    THEN LET s1 == [s EXCEPT !.current_frame_index = @ + 1]
         IN  _replace_frame_widget(s1, s1.current_frame_index)
    ELSE pause(s)

\* _update_frame_index looping back to the first frame at the end
_update_frame_index_wraps(s) ==
    IF s.metadata.frame_count > s.current_frame_index + 1
    THEN LET s1 == [s EXCEPT !.current_frame_index = @ + 1]
         IN  _replace_frame_widget(s1, s1.current_frame_index)
    ELSE _replace_frame_widget([s EXCEPT !.current_frame_index = 0], 0)

_update_frame_index(s) ==
    IF s.metadata.frame_count > s.current_frame_index + 1
    THEN LET s1 == [s EXCEPT !.current_frame_index = @ + 1]
         IN  _replace_frame_widget(s1, s1.current_frame_index)
    ELSE pause(s)

\* action_toggle_pause without clearing the pending fake pause
action_toggle_pause_keeps_fake(s) ==
    IF s.paused THEN play(s) ELSE pause(s)

action_toggle_pause(s) ==
    LET s1 == [s EXCEPT !._fake_paused = FALSE]
    IN  IF s1.paused THEN play(s1) ELSE pause(s1)

_fake_pause(s) ==
    LET s1 == timer_pause(s)
    IN  IF s1.error # NoError THEN s1 ELSE [s1 EXCEPT !._fake_paused = TRUE]

\* _fake_resume clearing the flag without resuming the timer
_fake_resume_no_timer(s) ==
    IF s._fake_paused
    THEN [s EXCEPT !._fake_paused = FALSE]
    ELSE s

\* _fake_resume replaying a tick missed while the timer was stopped
_fake_resume_replays(s) ==
    IF s._fake_paused
    THEN LET s1 == timer_resume(s)
         IN  IF s1.error # NoError THEN s1
             ELSE [s1 EXCEPT !._fake_paused = FALSE,
                             !.current_frame_index =
                                 IF @ + 1 < s.metadata.frame_count THEN @ + 1 ELSE @]
    ELSE s

_fake_resume(s) ==
    IF s._fake_paused
    THEN LET s1 == timer_resume(s)
         IN  IF s1.error # NoError THEN s1 ELSE [s1 EXCEPT !._fake_paused = FALSE]
    ELSE s

on_pause_button_pressed(s) == action_toggle_pause(s)

\* on_pause_button_entered without the guard on paused
on_pause_button_entered_unguarded(s) == _fake_pause(s)

on_pause_button_entered(s) == IF ~s.paused THEN _fake_pause(s) ELSE s

on_pause_button_leaved(s) == IF s._fake_paused THEN _fake_resume(s) ELSE s

(* PauseButton handlers; post_message delivers to the player's handler *)

on_click(s) == on_pause_button_pressed([s EXCEPT !._temp_pause = FALSE])

on_enter(s) == on_pause_button_entered([s EXCEPT !._temp_pause = TRUE])

on_leave(s) ==
    IF s._temp_pause
    THEN [on_pause_button_leaved(s) EXCEPT !._temp_pause = FALSE]
    ELSE s

-----------------------------------------------------------------------------
(* compose() and the progress track *)

Clamp(x, lo, hi) == IF x < lo THEN lo ELSE IF x > hi THEN hi ELSE x

\* watched_width: total_width * index // frame_count, clamped to
\* [0, total_width]; defined for frame_count >= 1
get_line_width(total_width, index, frame_count) ==
    Clamp((total_width * index) \div frame_count, 0, total_width)

\* what the call can do with an empty frame list, where watched_width is not
\* defined: raise on the division, or report nothing watched
EmptyCacheOutcomes == {"raise", "zero"}

\* compose(): the track is computed from the index and len(self.frames)
compose(s, w, on_empty) ==
    IF s.error # NoError \/ ~args.show_track THEN s
    ELSE LET n == Len(s.frames)
         IN  IF n = 0 /\ on_empty = "raise"
             THEN Raise(s, "ZeroDivisionError")
             ELSE [s EXCEPT !.track =
                      <<[width   |-> w,
                         index   |-> s.current_frame_index,
                         n       |-> n,
                         watched |-> IF n = 0 THEN 0
                                     ELSE get_line_width(w, s.current_frame_index, n)]>>]

\* the recompose a handler asked for, run when the handler is done
recomposed(s, w) ==
    IF s.recompose /\ s.error = NoError THEN compose(s, w, "raise") ELSE s

-----------------------------------------------------------------------------
(* Construction and mount *)

\* Python's "x or d" on an optional number: None and 0 are both falsy
py_or(x, d) == IF x = None \/ x[1] = 0 THEN d ELSE x[1]

__init__(s, a, v) ==
    IF ~a.path_exists THEN Raise(s, "AssertionError: Video is not exists")
    ELSE IF ~(a.render_delay = None \/ a.render_delay[1] >= 0)
    THEN Raise(s, "AssertionError: Render delay should be greater than 0")
    ELSE [s EXCEPT !.current_frame_index = 0,
                   !.frames = <<>>,
                   !.metadata = get_video_metadata(v),
                   !.paused = FALSE,
                   !._fake_paused = FALSE,
                   !.render_delay = py_or(a.render_delay, get_render_delay(a.image_type))]

\* on_mount accepting a zero interval (>= 0 for > 0)
on_mount_accepts_zero(s, a, v) ==
    LET s1 == [s EXCEPT !.frames = video_to_widgets(v)]
        s2 == IF a.fps_decrease_factor > 1
              THEN LET d == decrease_fps(s1.metadata, a.fps_decrease_factor, s1.frames)
                   IN  [s1 EXCEPT !.metadata = d.metadata, !.frames = d.frames]
              ELSE s1
        i  == effective_interval(s2.metadata, a.speed, s2.render_delay)
        s3 == IF ~(i >= 0)
              THEN Raise(s2, "AssertionError: Render delay should be less")
              ELSE [s2 EXCEPT !.timer = "running", !.timer_interval = i]
        s4 == IF s3.error = NoError /\ a.show_controls THEN _update_controls(s3) ELSE s3
        s5 == IF s4.error = NoError /\ a.show_track /\ ~a.show_controls
              THEN Raise(s4, "NoMatches: #time_display")
              ELSE s4
    IN  IF s5.error # NoError THEN s5 ELSE _replace_frame_widget(s5, 0)

on_mount(s, a, v) ==
    LET s1 == [s EXCEPT !.frames = video_to_widgets(v)]
        s2 == IF a.fps_decrease_factor > 1
              THEN LET d == decrease_fps(s1.metadata, a.fps_decrease_factor, s1.frames)
                   IN  [s1 EXCEPT !.metadata = d.metadata, !.frames = d.frames]
              ELSE s1
        i  == effective_interval(s2.metadata, a.speed, s2.render_delay)
        s3 == IF ~(i > 0)
              THEN Raise(s2, "AssertionError: Render delay should be less")
              ELSE [s2 EXCEPT !.timer = "running", !.timer_interval = i]
        s4 == IF s3.error = NoError /\ a.show_controls THEN _update_controls(s3) ELSE s3
        s5 == IF s4.error = NoError /\ a.show_track /\ ~a.show_controls
              THEN Raise(s4, "NoMatches: #time_display")
              ELSE s4
    IN  IF s5.error # NoError THEN s5 ELSE _replace_frame_widget(s5, 0)

-----------------------------------------------------------------------------
(* The state machine *)

Args ==
    [path_exists : BOOLEAN,
     image_type : ImageType,
     speed : SpeedArgs,
     render_delay : RenderDelayArgs,
     fps_decrease_factor : FactorArgs,
     show_controls : BOOLEAN,
     show_track : BOOLEAN]

Videos == [frame_count : 1..MaxFrames, delay_between_frames : FrameDelays]

Snap(s) ==
    [current_frame_index |-> s.current_frame_index,
     paused              |-> s.paused,
     _fake_paused        |-> s._fake_paused,
     timer               |-> s.timer]

Push(op) ==
    <<[op |-> op, before |-> Snap(Self)]>> \o
        (IF hist = <<>> THEN <<>> ELSE <<hist[1]>>)

Becomes(s) ==
    /\ current_frame_index' = s.current_frame_index
    /\ frames' = s.frames
    /\ metadata' = s.metadata
    /\ paused' = s.paused
    /\ _fake_paused' = s._fake_paused
    /\ render_delay' = s.render_delay
    /\ frame' = s.frame
    /\ timer' = s.timer
    /\ timer_interval' = s.timer_interval
    /\ _temp_pause' = s._temp_pause
    /\ on_update_calls' = s.on_update_calls
    /\ track' = s.track
    /\ error' = s.error

\* nothing constructed yet
Blank ==
    /\ status = "new"
    /\ error = NoError
    /\ current_frame_index = 0
    /\ frames = <<>>
    /\ metadata = [frame_count |-> 0, delay_between_frames |-> 0]
    /\ paused = FALSE
    /\ _fake_paused = FALSE
    /\ render_delay = 0
    /\ frame = 0 - 1
    /\ timer = "unset"
    /\ timer_interval = 0
    /\ _temp_pause = FALSE
    /\ on_update_calls = <<>>
    /\ track = <<>>
    /\ hist = <<>>
    /\ end_of_stream = FALSE

Init ==
    /\ args \in Args
    /\ video \in Videos
    /\ width = MaxWidth
    /\ Blank

Construct ==
    /\ status = "new"
    /\ LET s == __init__(Self, args, video)
       IN  /\ Becomes(s)
           /\ status' = IF s.error = NoError THEN "constructed" ELSE "crashed"
    /\ UNCHANGED <<args, video, width, hist, end_of_stream>>

\* the first compose, which the host runs before it delivers Mount
Compose ==
    /\ status = "constructed"
    /\ \E on_empty \in EmptyCacheOutcomes :
          LET s == compose(Self, width, on_empty)
          IN  /\ Becomes(s)
              /\ status' = IF s.error = NoError THEN "composed" ELSE "crashed"
    /\ UNCHANGED <<args, video, width, hist, end_of_stream>>

Mount ==
    /\ status = "composed"
    /\ LET s == recomposed(on_mount(Self, args, video), width)
       IN  /\ Becomes(s)
           /\ status' = IF s.error = NoError THEN "mounted" ELSE "crashed"
    /\ UNCHANGED <<args, video, width, hist, end_of_stream>>

TogglePauseOps == {"toggle_pause", "click"}

\* the operation op, taken in the current state, calls play()
InvokesPlay(op) == op = "play" \/ (op \in TogglePauseOps /\ paused)

\* an operation on the mounted player: op names it, s is the player after it
Step(op, s) ==
    /\ status = "mounted"
    /\ LET r == recomposed(s, width)
       IN  /\ Becomes(r)
           /\ status' = IF r.error = NoError THEN "mounted" ELSE "crashed"
    /\ hist' = Push(op)
    /\ end_of_stream' =
          IF op = "tick" THEN ~(metadata.frame_count > current_frame_index + 1)
          ELSE IF InvokesPlay(op) THEN FALSE
          ELSE end_of_stream
    /\ UNCHANGED <<args, video, width>>

Tick == timer = "running" /\ Step("tick", _update_frame_index(Self))

CallPlay == Step("play", play(Self))

CallPause == Step("pause", pause(Self))

KeyTogglePause == Step("toggle_pause", action_toggle_pause(Self))

Click == Step("click", on_click(Self))

PointerEnter == Step("enter", on_enter(Self))

PointerLeave == Step("leave", on_leave(Self))

Next ==
    \/ Construct
    \/ Compose
    \/ Mount
    \/ Tick
    \/ CallPlay
    \/ CallPause
    \/ KeyTogglePause
    \/ Click
    \/ PointerEnter
    \/ PointerLeave

Spec == Init /\ [][Next]_vars

\* the same player with a default configuration, drawn in every track width
InitTrack ==
    /\ args \in {a \in Args : /\ a.path_exists
                              /\ a.show_controls
                              /\ a.show_track
                              /\ a.image_type = "UNICODE"
                              /\ a.speed = 1
                              /\ a.render_delay = None
                              /\ a.fps_decrease_factor \in {1, 2}}
    /\ video \in {v \in Videos : v.delay_between_frames = 10000}
    /\ width \in 0..MaxWidth
    /\ Blank

SpecTrack == InitTrack /\ [][Next]_vars

\* a running timer keeps firing: its callback runs whenever it stays enabled
InitFair ==
    /\ args \in {a \in Args : /\ a.path_exists
                              /\ a.show_controls
                              /\ a.image_type = "UNICODE"
                              /\ a.show_track
                              /\ a.speed = 1
                              /\ a.render_delay = None
                              /\ a.fps_decrease_factor \in {1, 2}}
    /\ video \in {v \in Videos : v.delay_between_frames = 10000}
    /\ width = MaxWidth
    /\ Blank

SpecFair == InitFair /\ [][Next]_vars /\ WF_vars(Tick)

-----------------------------------------------------------------------------
(* Vocabulary of the properties *)

Mounted == status = "mounted"

LastIndex == metadata.frame_count - 1

\* the operation taken by the step into the current state, and the state
\* it was taken in
LastOp == hist[1].op

Before == hist[1].before

\* in an action formula: the operation the step takes
ThisOp == hist'[1].op

-----------------------------------------------------------------------------
(* C1: once the metadata is loaded (frame_count >= 1), in every reachable    *)
(* state 0 <= current_frame_index <= frame_count - 1, whatever sequence of   *)
(* ticks, toggle_pause, play(), pause(), pointer-enter and pointer-leave     *)
(* led there.                                                                *)
C1_IndexInRange ==
    metadata.frame_count >= 1 =>
        /\ 0 <= current_frame_index
        /\ current_frame_index <= metadata.frame_count - 1

\* the last index was reached by a tick and then left again by a restart
C1_Witness ==
    /\ Mounted
    /\ Len(hist) = 2
    /\ hist[2].op = "tick"
    /\ hist[2].before.current_frame_index = LastIndex - 1
    /\ LastOp = "play"
    /\ Before.current_frame_index = LastIndex
    /\ metadata.frame_count = MaxFrames
    /\ current_frame_index = 0

(* C2 as stated: every step taken while paused is False leaves the index     *)
(* at least where it was, and the index decreases (to 0) only on the         *)
(* Paused -> Playing transition taken at the last index.                     *)
C2_Original ==
    [][ /\ (Mounted /\ ~paused) => current_frame_index' >= current_frame_index
        /\ current_frame_index' < current_frame_index =>
              /\ paused /\ ~paused'
              /\ current_frame_index = LastIndex
              /\ current_frame_index' = 0 ]_vars

(* C2 amended: every step other than a play() call taken while paused is     *)
(* False leaves the index at least where it was; the index decreases (to 0)  *)
(* only in a play(), called directly or through toggle_pause from Paused,    *)
(* taken at the last index, whether paused was True or False.                *)
C2_NonDecreasingExceptRestart ==
    [][ /\ (Mounted /\ ~paused /\ ThisOp # "play") =>
              current_frame_index' >= current_frame_index
        /\ current_frame_index' < current_frame_index =>
              /\ InvokesPlay(ThisOp)
              /\ current_frame_index = LastIndex
              /\ current_frame_index' = 0 ]_vars

\* a tick advanced the index while Playing, then play() restarted from the end
C2_Witness ==
    /\ Mounted
    /\ Len(hist) = 2
    /\ hist[2].op = "tick"
    /\ ~hist[2].before.paused
    /\ Before.current_frame_index = hist[2].before.current_frame_index + 1
    /\ LastOp = "play"
    /\ ~Before.paused
    /\ Before.current_frame_index = LastIndex
    /\ current_frame_index = 0

(* C3: a play() invoked from Paused, directly or through toggle_pause,       *)
(* sets the index to 0 when it was frame_count - 1 and leaves it unchanged   *)
(* otherwise; afterwards the timer is running and paused is False.           *)
C3_RestartFromEnd ==
    [][ (Mounted /\ paused /\ InvokesPlay(ThisOp)) =>
            /\ current_frame_index' =
                  IF current_frame_index = LastIndex THEN 0 ELSE current_frame_index
            /\ timer' = "running"
            /\ paused' = FALSE
            /\ status' = "mounted" ]_vars

\* toggle_pause restarted a video that had auto-paused at its end
C3_Witness ==
    /\ Mounted
    /\ Len(hist) = 2
    /\ hist[2].op = "tick"
    /\ LastOp = "toggle_pause"
    /\ Before.paused
    /\ Before.current_frame_index = LastIndex
    /\ LastIndex >= 1
    /\ current_frame_index = 0
    /\ timer = "running"
    /\ ~paused

-----------------------------------------------------------------------------
\* the last two operations were both toggle_pause, with nothing in between
ToggledTwice ==
    /\ Mounted
    /\ Len(hist) = 2
    /\ hist[1].op \in TogglePauseOps
    /\ hist[2].op \in TogglePauseOps

\* the state toggle_pause was first called in
Original == hist[2].before

(* C4 as stated: from every reachable state, two toggle_pause calls with no  *)
(* tick in between restore the paused flag, the fake-paused flag, the timer  *)
(* status and the index.                                                     *)
C4_Original == ToggledTwice => Snap(Self) = Original

(* C4 amended: two toggle_pause calls with nothing in between always restore *)
(* the paused flag; they leave the fake-paused flag False, the timer running *)
(* exactly when paused is False, and the index at 0 when it was at           *)
(* frame_count - 1 and unchanged otherwise.  So they return to the original  *)
(* state whenever that state was not fake-paused, had its timer running      *)
(* exactly when not paused, and was not at the last index of a video of      *)
(* more than one frame.                                                      *)
C4_ToggleTwice ==
    ToggledTwice =>
        /\ paused = Original.paused
        /\ _fake_paused = FALSE
        /\ timer = IF paused THEN "paused" ELSE "running"
        /\ current_frame_index =
              IF Original.current_frame_index = LastIndex
              THEN 0 ELSE Original.current_frame_index
        /\ ( /\ ~Original._fake_paused
             /\ (Original.timer = "running") = ~Original.paused
             /\ (Original.current_frame_index # LastIndex \/ LastIndex = 0)
           ) => Snap(Self) = Original

\* Playing in the middle of the video, paused and resumed by two toggles
C4_Witness ==
    /\ ToggledTwice
    /\ ~Original.paused
    /\ ~Original._fake_paused
    /\ Original.timer = "running"
    /\ Original.current_frame_index = 1
    /\ LastIndex = 2
    /\ hist[1].before.paused
    /\ Snap(Self) = Original

-----------------------------------------------------------------------------
Playing(b) == ~b.paused /\ ~b._fake_paused /\ b.timer = "running"

\* the last two operations were a pointer-enter and then a pointer-leave
HoveredAndLeft ==
    /\ Mounted
    /\ Len(hist) = 2
    /\ hist[2].op = "enter"
    /\ hist[1].op = "leave"

(* C5: from any Playing state, a pointer-enter (fake_pause) followed at once *)
(* by a pointer-leave (fake_resume) leaves current_frame_index and paused    *)
(* unchanged, the timer running and the fake-paused flag False.              *)
C5_FakePauseResume ==
    (HoveredAndLeft /\ Playing(hist[2].before)) =>
        /\ current_frame_index = hist[2].before.current_frame_index
        /\ paused = hist[2].before.paused
        /\ timer = "running"
        /\ _fake_paused = FALSE

\* the hover did stop the timer in between
C5_Witness ==
    /\ HoveredAndLeft
    /\ Playing(hist[2].before)
    /\ hist[1].before.timer = "paused"
    /\ hist[1].before._fake_paused
    /\ ~hist[1].before.paused
    /\ Playing(Snap(Self))
    /\ current_frame_index = 1

-----------------------------------------------------------------------------
\* the effect of one timer tick
TickEffect ==
    [][ (Mounted /\ ThisOp = "tick") =>
            IF current_frame_index + 1 < metadata.frame_count
            THEN /\ current_frame_index' = current_frame_index + 1
                 /\ paused' = paused
                 /\ timer' = "running"
            ELSE /\ current_frame_index' = current_frame_index
                 /\ paused' = TRUE
                 /\ timer' = "paused" ]_vars

\* after the end-of-stream tick no tick fires until a play
NoTickUntilPlay == [][ (Mounted /\ end_of_stream) => ThisOp # "tick" ]_vars

(* C6: a tick taken when current_frame_index + 1 < frame_count increments    *)
(* the index by exactly 1 and leaves paused and the timer running; a tick    *)
(* taken at frame_count - 1 leaves the index unchanged, sets paused and      *)
(* stops the timer, so that no further tick fires until a play.              *)
C6_Original == TickEffect /\ NoTickUntilPlay

-----------------------------------------------------------------------------
(* C7: toggle_pause clears the fake-paused flag before choosing between play *)
(* and pause, so after any toggle_pause the flag is False, and a             *)
(* pointer-leave that arrives next changes neither the timer status, the     *)
(* paused flag nor the index: it never resumes a video paused while hovering.*)
C7_ExplicitOverTransient ==
    [][ /\ (Mounted /\ ThisOp \in TogglePauseOps) => _fake_paused' = FALSE
        /\ (Mounted /\ hist # <<>> /\ LastOp \in TogglePauseOps /\ ThisOp = "leave") =>
              /\ timer' = timer
              /\ paused' = paused
              /\ current_frame_index' = current_frame_index
              /\ _fake_paused' = FALSE ]_vars

\* hover (fake pause), click (explicit pause), pointer-leave: still paused
C7_Witness ==
    /\ Mounted
    /\ Len(hist) = 2
    /\ hist[2].op = "click"
    /\ hist[2].before._fake_paused
    /\ ~hist[2].before.paused
    /\ LastOp = "leave"
    /\ Before.paused
    /\ ~Before._fake_paused
    /\ paused
    /\ timer = "paused"
    /\ ~_fake_paused

-----------------------------------------------------------------------------
\* the interval on_mount computes for the timer
Interval == effective_interval(metadata, args.speed, render_delay)

(* C8: the timer is armed only with the interval                             *)
(* delay_between_frames / speed - render_delay, and only when that is        *)
(* strictly positive; when render_delay >= delay_between_frames / speed the  *)
(* setup fails before the timer is armed and no operation, so no tick, ever  *)
(* runs for that player.                                                     *)
C8_PositiveInterval ==
    /\ timer # "unset" => (timer_interval > 0 /\ timer_interval = Interval)
    /\ (status \in {"mounted", "crashed"} /\ Interval <= 0) =>
          /\ status = "crashed"
          /\ timer = "unset"
          /\ hist = <<>>

\* render_delay = 0.15 s, delay_between_frames = 0.1 s, speed = 1
C8_Witness ==
    /\ status = "crashed"
    /\ error = "AssertionError: Render delay should be less"
    /\ render_delay = 15000
    /\ metadata.delay_between_frames = 10000
    /\ args.speed = 1
    /\ timer = "unset"

(* C9: a render_delay supplied at construction, 0 included, is the delay     *)
(* the player uses; the per-type default is used only when it is None.       *)
C9_Original ==
    status \in {"constructed", "composed", "mounted"} =>
        render_delay = IF args.render_delay = None
                       THEN get_render_delay(args.image_type)
                       ELSE args.render_delay[1]

(* C10: a player constructed with fps_decrease_factor < 1 fails at           *)
(* construction: it never mounts, arms a timer or plays.                     *)
C10_Original ==
    (args.fps_decrease_factor < 1 /\ status # "new") =>
        /\ status = "crashed"
        /\ timer = "unset"
        /\ hist = <<>>

-----------------------------------------------------------------------------
\* the arguments of the on_update calls of a handler run, in call order
Indices(calls) == [i \in 1..Len(calls) |-> calls[i].index]

\* in an action formula: the step is a tick that advances the index
AdvancingTick ==
    /\ Mounted
    /\ ThisOp = "tick"
    /\ current_frame_index' = current_frame_index + 1

(* C11 as stated: on_update is invoked exactly once per advanced frame, with *)
(* the new index, and by nothing else: not by mount, the end-of-stream tick, *)
(* pause, play, toggle_pause, fake_pause or fake_resume.                     *)
C11_Original ==
    [][ status' # "crashed" =>
            Indices(on_update_calls') =
                IF AdvancingTick THEN <<current_frame_index'>> ELSE <<>> ]_vars

(* C11 amended: on_update is invoked exactly once per presented frame: once  *)
(* with index 0 by a mount that completes, and once with the new index by    *)
(* each index-advancing tick; it is not invoked by construction, the         *)
(* end-of-stream tick, pause, play, toggle_pause, fake_pause or fake_resume. *)
C11_OncePerPresentedFrame ==
    [][ IF AdvancingTick
        THEN Indices(on_update_calls') = <<current_frame_index'>>
        ELSE IF Mounted \/ status \in {"new", "constructed"}
        THEN on_update_calls' = <<>>
        ELSE status' = "mounted" => Indices(on_update_calls') = <<0>> ]_vars

\* the first tick after mount advanced to frame 1 and told the observer so
C11_Witness ==
    /\ Mounted
    /\ Len(hist) = 1
    /\ LastOp = "tick"
    /\ current_frame_index = 1
    /\ Indices(on_update_calls) = <<1>>

-----------------------------------------------------------------------------
\* the last operation restarted a stopped timer
Resumed ==
    /\ hist # <<>>
    /\ Before.timer = "paused"
    /\ timer = "running"

\* the index play() leaves behind when called at index i
AfterPlay(i) == IF i = LastIndex THEN 0 ELSE i

(* C12: pause(), fake_pause (pointer-enter) and fake_resume (pointer-leave)  *)
(* never change current_frame_index; while the timer is stopped no step      *)
(* changes the index until the next play; and the tick that follows a resume *)
(* starts from the retained index and moves it by exactly 1 when a next      *)
(* frame exists, never by more: no missed tick is replayed.                  *)
C12_PauseRetainsIndex ==
    [][ /\ (Mounted /\ ThisOp \in {"pause", "enter", "leave"}) =>
              current_frame_index' = current_frame_index
        /\ (Mounted /\ timer = "paused" /\ ~InvokesPlay(ThisOp)) =>
              current_frame_index' = current_frame_index
        /\ (Mounted /\ Resumed /\ ThisOp = "tick") =>
              /\ current_frame_index =
                    IF LastOp = "leave" THEN Before.current_frame_index
                    ELSE AfterPlay(Before.current_frame_index)
              /\ current_frame_index' =
                    IF current_frame_index + 1 < metadata.frame_count
                    THEN current_frame_index + 1
                    ELSE current_frame_index ]_vars

\* paused by a hover at index 1, resumed by the leave, the next tick shows 2
C12_Witness ==
    /\ Mounted
    /\ Len(hist) = 2
    /\ hist[2].op = "leave"
    /\ hist[2].before.timer = "paused"
    /\ hist[2].before.current_frame_index = 1
    /\ LastOp = "tick"
    /\ Before.timer = "running"
    /\ Before.current_frame_index = 1
    /\ current_frame_index = 2

-----------------------------------------------------------------------------
\* the track compose() computed last
Track == track[1]

\* watched_width is non-decreasing in the index and lies in [0, w]
WatchedWidthLaw ==
    (track # <<>> /\ Track.n >= 1) =>
        /\ Track.watched = (Track.width * Track.index) \div Track.n
        /\ 0 <= Track.watched
        /\ Track.watched <= Track.width
        /\ Track.index \in 0..(Track.n - 1)
        /\ \A i \in 0..Track.index :
              get_line_width(Track.width, i, Track.n) <= Track.watched

\* the track is never computed from an empty frame list
TrackNeedsFrames == track # <<>> => Track.n >= 1

(* C13: watched_width(w, idx, n) = w * idx // n, with n the number of cached *)
(* frames, is non-decreasing in idx and lies in [0, w] for all w >= 0,       *)
(* n >= 1 and idx in [0, n); and the track is only ever computed with        *)
(* n >= 1, never with an empty frame cache.                                  *)
C13_Original == WatchedWidthLaw /\ TrackNeedsFrames

-----------------------------------------------------------------------------
\* the player after k timer ticks and nothing else
RECURSIVE Ticks(_, _)
Ticks(s, k) == IF k = 0 THEN s ELSE Ticks(_update_frame_index(s), k - 1)

AtEndOfStream(s) ==
    /\ s.paused
    /\ s.current_frame_index = s.metadata.frame_count - 1
    /\ s.timer = "paused"

\* ticks alone take a Playing player to the last index in exactly as many
\* ticks as frames remain, and the tick after that auto-pauses
TicksToEnd ==
    (Mounted /\ ~paused /\ timer = "running") =>
        LET left == LastIndex - current_frame_index
        IN  /\ Ticks(Self, left).current_frame_index = LastIndex
            /\ ~Ticks(Self, left).paused
            /\ \A k \in 0..left :
                  Ticks(Self, k).current_frame_index = current_frame_index + k
            /\ AtEndOfStream(Ticks(Self, left + 1))

\* no user input since the mount or since the last tick
Undisturbed == hist = <<>> \/ LastOp = "tick"

(* C14: from mount (Playing, index 0) with no user input the index is        *)
(* frame_count - 1 after exactly frame_count - 1 ticks and the next tick     *)
(* auto-pauses; and with a timer that keeps firing, a Playing player that    *)
(* gets no further user input eventually is Paused at frame_count - 1.       *)
C14_EndOfStreamReached ==
    /\ []TicksToEnd
    /\ (Mounted /\ ~paused /\ timer = "running" /\ Undisturbed)
          ~> (AtEndOfStream(Self) \/ (Mounted /\ ~Undisturbed))

\* mount, then ticks only: the last two were the one reaching the last index
\* and the one that auto-paused
C14_Witness ==
    /\ Mounted
    /\ Len(hist) = 2
    /\ hist[2].op = "tick"
    /\ hist[2].before.current_frame_index = LastIndex - 1
    /\ LastOp = "tick"
    /\ Before.current_frame_index = LastIndex
    /\ ~Before.paused
    /\ LastIndex = MaxFrames - 1
    /\ AtEndOfStream(Self)
    /\ end_of_stream

-----------------------------------------------------------------------------
(* C15: in every mounted state the timer is running if and only if paused   *)
(* is False and the fake-paused flag is False, and paused and fake-paused   *)
(* are never both True.                                                     *)
C15_Original ==
    Mounted =>
        /\ (timer = "running") <=> (~paused /\ ~_fake_paused)
        /\ ~(paused /\ _fake_paused)

-----------------------------------------------------------------------------
(* C16: after mount and after every completed operation the held current    *)
(* frame is the cached frame at current_frame_index; in particular after a  *)
(* restart from the end the displayed frame is frame 0.                     *)
C16_Original ==
    (Mounted /\ error = NoError) => frame = frames[current_frame_index + 1]

-----------------------------------------------------------------------------
(* C17: within an index-advancing tick the new frame is presented before    *)
(* the observer is invoked: at the moment on_update(new index) is called    *)
(* the held current frame is already the cached frame at the new index.     *)
C17_Original ==
    (/\ Mounted
     /\ hist # <<>>
     /\ LastOp = "tick"
     /\ current_frame_index = Before.current_frame_index + 1) =>
        \A i \in 1..Len(on_update_calls) :
            /\ on_update_calls[i].index = current_frame_index
            /\ on_update_calls[i].frame = frames[on_update_calls[i].index + 1]

-----------------------------------------------------------------------------
\* what the player's pause logic is made of
PauseState == <<timer, paused, _fake_paused, current_frame_index>>

(* C18: a pointer-enter while paused is True changes nothing (no timer      *)
(* operation, fake-paused stays as it was), a pointer-leave while the       *)
(* fake-paused flag is False changes nothing, and a pointer-enter taken     *)
(* from Playing stops the timer, sets the fake-paused flag and leaves the   *)
(* paused flag False and the index alone.                                   *)
C18_FakePauseGuards ==
    [][ /\ (Mounted /\ ThisOp = "enter" /\ paused) => UNCHANGED PauseState
        /\ (Mounted /\ ThisOp = "leave" /\ ~_fake_paused) =>
               UNCHANGED PauseState
        /\ (Mounted /\ ThisOp = "enter" /\ Playing(Snap(Self))) =>
               /\ timer' = "paused"
               /\ _fake_paused'
               /\ ~paused'
               /\ current_frame_index' = current_frame_index
      ]_vars

\* a pause() and then a pointer-enter on the paused player: nothing moved
C18_Witness ==
    /\ Mounted
    /\ Len(hist) = 2
    /\ hist[2].op = "pause"
    /\ LastOp = "enter"
    /\ Before.paused
    /\ ~Before._fake_paused
    /\ Before.timer = "paused"
    /\ paused
    /\ ~_fake_paused
    /\ timer = "paused"

-----------------------------------------------------------------------------
\* on_mount has filled the frame cache: construction and the first compose
\* went through
MountEntered == frames # <<>>

(* C19: for every combination of show_controls and show_track, with a       *)
(* configuration whose timer interval is positive and whose decimation      *)
(* factor is at least 1, mount completes and no                             *)
(* tick, pause, play or toggle_pause raises: a player whose mount has been  *)
(* entered never ends in a runtime error.                                   *)
C19_Original ==
    (MountEntered /\ Interval > 0 /\ args.fps_decrease_factor >= 1) =>
        /\ status # "crashed"
        /\ error = NoError

====
